---- MODULE Spec2Model ----
(***************************************************************************)
(* Model of application.py: the /upload pipeline (validate, save,          *)
(* transcode, store, submit, poll), the /gpt passthrough and the           *)
(* allowed_file predicate.  Strings are sequences of one-character         *)
(* strings, so that splitting, lower-casing and sanitising are computed.   *)
(***************************************************************************)
EXTENDS Integers, Sequences, FiniteSets, TLC

\* ------------------------------------------------------------------------
\* Bounds
\* ------------------------------------------------------------------------
MaxLen == 4
MaxPolls == 3

\* ------------------------------------------------------------------------
\* Strings
\* ------------------------------------------------------------------------
NONE == "NONE"
ABSENT == "ABSENT"

FileChars == {"m", "p", "4", "o", "v", "a", "i", "M", "V", "."}

Strings(chars, n) == UNION {[1..k -> chars] : k \in 0..n}

\* str.lower() on one character
lowerChar(c) ==
  CASE c = "A" -> "a" [] c = "B" -> "b" [] c = "I" -> "i" [] c = "M" -> "m"
    [] c = "O" -> "o" [] c = "P" -> "p" [] c = "T" -> "t" [] c = "V" -> "v"
    [] c = "X" -> "x" [] OTHER -> c

lowerMut(s) == s

\* str.lower()
lower(s) == [i \in 1..Len(s) |-> lowerChar(s[i])]

\* '.' in filename
contains(s, c) == \E i \in 1..Len(s) : s[i] = c

RECURSIVE rfind(_, _, _)
\* index of the last occurrence of c in s[1..i], 0 when there is none
rfind(s, c, i) ==
  IF i = 0 THEN 0
  ELSE IF s[i] = c THEN i
  ELSE rfind(s, c, i - 1)

\* str.rsplit(sep, 1): the list of parts, split at the last sep only
rsplit1(s, sep) ==
  LET i == rfind(s, sep, Len(s))
  IN IF i = 0 THEN <<s>>
     ELSE <<SubSeq(s, 1, i - 1), SubSeq(s, i + 1, Len(s))>>

ALLOWED_EXTENSIONS == {<<"m", "p", "4">>, <<"m", "o", "v">>, <<"a", "v", "i">>}

allowed_file(filename) ==
  /\ contains(filename, ".")
  /\ lower(rsplit1(filename, ".")[2]) \in ALLOWED_EXTENSIONS

\* ------------------------------------------------------------------------
\* Paths and file names
\* ------------------------------------------------------------------------
UPLOAD_FOLDER == <<"u">>

\* characters kept by werkzeug's _filename_ascii_strip_re ([^A-Za-z0-9_.-] removed)
SafeChars == {"a", "b", "i", "m", "o", "p", "t", "v", "x", "4",
              "A", "B", "I", "M", "O", "P", "T", "V", "X", "_", ".", "-"}

\* filename.replace(os.sep, " ")
replaceSep(s) == [i \in 1..Len(s) |-> IF s[i] = "/" THEN " " ELSE s[i]]

RECURSIVE joinWords(_, _, _, _)
\* "_".join(s.split()): runs of blanks between words become one "_",
\* leading and trailing blanks disappear
joinWords(s, i, acc, gap) ==
  IF i > Len(s) THEN acc
  ELSE IF s[i] = " " THEN joinWords(s, i + 1, acc, acc # <<>>)
  ELSE joinWords(s, i + 1,
                 acc \o (IF gap THEN <<"_">> ELSE <<>>) \o <<s[i]>>, FALSE)

RECURSIVE lstrip(_, _)
lstrip(s, chars) ==
  IF s # <<>> /\ Head(s) \in chars THEN lstrip(Tail(s), chars) ELSE s

RECURSIVE rstrip(_, _)
rstrip(s, chars) ==
  IF s # <<>> /\ s[Len(s)] \in chars
  THEN rstrip(SubSeq(s, 1, Len(s) - 1), chars) ELSE s

\* werkzeug.utils.secure_filename
secure_filename(filename) ==
  LET joined == joinWords(replaceSep(filename), 1, <<>>, FALSE)
      ascii == SelectSeq(joined, LAMBDA c : c \in SafeChars)
  IN rstrip(lstrip(ascii, {".", "_"}), {".", "_"})

\* os.path.join(upload_folder, filename) for a filename without separators
join(folder, filename) == folder \o <<"/">> \o filename

basenameMut(path) == path

\* os.path.basename
basename(path) == SubSeq(path, rfind(path, "/", Len(path)) + 1, Len(path))

\* ------------------------------------------------------------------------
\* Values exchanged with the collaborators
\* ------------------------------------------------------------------------
NoData == [conv |-> FALSE, data |-> <<>>]

\* the bytes request r uploads, in the two chunks FileStorage.save copies
Bytes(r) == [conv |-> FALSE, data |-> <<<<r, 1>>, <<r, 2>>>>]

\* what the transcoder writes for the bytes it read
Converted(content) == [conv |-> TRUE, data |-> content.data]

\* paths the transcoder may return
ConvertedPaths == {<<"c", "/", "x">>, <<"c", "/", "y">>}

Statuses == {"SUCCEEDED", "IN_PROGRESS", "FAILED", "TIMED_OUT"}

\* get_face_detection responses; ABSENT marks a key the response lacks
Responses ==
  [JobStatus : Statuses, VideoMetadata : {ABSENT, "meta"},
   Faces : {ABSENT, "faces"}, NextToken : {ABSENT, "tok"},
   StatusMessage : {ABSENT, "corrupt video"}]

NoResp == [JobStatus |-> NONE, VideoMetadata |-> ABSENT, Faces |-> ABSENT,
           NextToken |-> ABSENT, StatusMessage |-> ABSENT]

\* the call get_face_detection raising instead of answering
RaisedResp == [NoResp EXCEPT !.JobStatus = "RAISED"]

NoPayload == [status |-> NONE, video_metadata |-> NONE, faces |-> NONE,
              next_token |-> NONE]

\* response.get(key, default)
get(resp, key, default) == IF resp[key] = ABSENT THEN default ELSE resp[key]

buildPayloadMut(resp) ==
  [status |-> "SUCCEEDED", video_metadata |-> "{}", faces |-> "[]",
   next_token |-> ""]

\* the dict poll_face_detection returns on SUCCEEDED
buildPayload(resp) ==
  [status |-> "SUCCEEDED",
   video_metadata |-> get(resp, "VideoMetadata", "{}"),
   faces |-> get(resp, "Faces", "[]"),
   next_token |-> get(resp, "NextToken", "")]

errorMessageMut(resp) == "Face detection failed"

\* response.get('StatusMessage', 'Face detection failed')
errorMessage(resp) == get(resp, "StatusMessage", "Face detection failed")

pollBranchMut(status) ==
  IF status = "SUCCEEDED" THEN "return"
  ELSE IF status \in {"IN_PROGRESS", "FAILED"} THEN "sleep"
  ELSE "raise"

\* the if/elif/else of the polling loop
pollBranch(status) ==
  IF status = "SUCCEEDED" THEN "return"
  ELSE IF status = "IN_PROGRESS" THEN "sleep"
  ELSE "raise"

SLEEP_SECONDS == 5

\* ------------------------------------------------------------------------
\* State
\* ------------------------------------------------------------------------
VARIABLES
  pc,          \* per /upload request: where its handler stands
  req,         \* per /upload request: the multipart body it carries
  loc,         \* per /upload request: saved_file_path, converted_path,
               \*   converted_filename, job_id
  disk,        \* local filesystem: path -> content
  bucket,      \* S3_BUCKET: key -> content
  jobs,        \* detection jobs created, in order of creation
  trace,       \* per /upload request: the collaborator calls it has made
  lastResp,    \* per /upload request: the latest get_face_detection answer
  pollResult,  \* per /upload request: how poll_face_detection ended
  response,    \* per /upload request: the HTTP response
  slept,       \* per /upload request: total time spent in time.sleep
  gpc,         \* per /gpt request: where its handler stands
  gbody,       \* per /gpt request: the JSON body
  gcalls,      \* per /gpt request: calls of chat.completions.create
  gresponse,   \* per /gpt request: the HTTP response
  goutcome,    \* per /gpt request: what the completion adapter did
  fpc,         \* allowed_file call: "call" before, "ret" after
  fname,       \* allowed_file call: the argument
  fresult      \* allowed_file call: the value returned

uvars == <<pc, req, loc, disk, bucket, jobs, trace, lastResp, pollResult,
           response, slept>>
gvars == <<gpc, gbody, gcalls, gresponse, goutcome>>
fvars == <<fpc, fname, fresult>>
vars == <<uvars, gvars, fvars>>

Requests == {1}
ConcRequests == {1, 2}
GptRequests == {1, 2}

NoFile == [hasFile |-> FALSE, filename |-> <<>>]
File(name) == [hasFile |-> TRUE, filename |-> name]

UploadNames ==
  {<<>>, <<"m", "p", "4">>, <<"a", ".", "t", "x", "t">>,
   <<"a", ".", "m", "p", "4">>, <<"/", "a", ".", "m", "p", "4">>,
   <<"b", ".", "M", "O", "V">>}

ConcNames ==
  {<<"a", ".", "m", "p", "4">>, <<"/", "a", ".", "m", "p", "4">>,
   <<"b", ".", "M", "O", "V">>}

ConcResponses ==
  {[NoResp EXCEPT !.JobStatus = "SUCCEEDED"],
   [NoResp EXCEPT !.JobStatus = "IN_PROGRESS"],
   [NoResp EXCEPT !.JobStatus = "FAILED"]}

NoLoc == [saved_file_path |-> <<>>, converted_path |-> <<>>,
          converted_filename |-> <<>>, job_id |-> 0]
NoResponse == [code |-> 0, error |-> "", payload |-> NoPayload]
NoPollResult == [kind |-> NONE, value |-> NoPayload, msg |-> ""]

Call(op, path, data, out) ==
  [op |-> op, path |-> path, data |-> data, out |-> out]

Ops(r) == [i \in 1..Len(trace[r]) |-> trace[r][i].op]
Count(r, op) == Cardinality({i \in 1..Len(trace[r]) : trace[r][i].op = op})

InitUpload(R) ==
  /\ pc = [r \in R |-> "idle"]
  /\ req = [r \in R |-> NoFile]
  /\ loc = [r \in R |-> NoLoc]
  /\ disk = <<>>
  /\ bucket = <<>>
  /\ jobs = <<>>
  /\ trace = [r \in R |-> <<>>]
  /\ lastResp = [r \in R |-> NoResp]
  /\ pollResult = [r \in R |-> NoPollResult]
  /\ response = [r \in R |-> NoResponse]
  /\ slept = [r \in R |-> 0]

NoOutcome == [ok |-> FALSE, choices |-> <<>>, msg |-> ""]

InitGpt(G) ==
  /\ gpc = [g \in G |-> "idle"]
  /\ gbody = [g \in G |-> [kind |-> NONE, hasInput |-> FALSE, input |-> ""]]
  /\ gcalls = [g \in G |-> 0]
  /\ gresponse = [g \in G |-> [code |-> 0, error |-> "", response |-> ""]]
  /\ goutcome = [g \in G |-> NoOutcome]

InitFile(names) ==
  /\ fpc = "call"
  /\ fname \in names
  /\ fresult = FALSE

\* ------------------------------------------------------------------------
\* POST /upload
\* ------------------------------------------------------------------------
validateMut(file) ==
  IF ~file.hasFile THEN "No file part"
  ELSE IF file.filename = <<>> THEN "No file selected"
  ELSE ""

\* the three checks upload_video makes before its try block: the message
\* of the 400 response, "" when the upload is accepted
validate(file) ==
  IF ~file.hasFile THEN "No file part"
  ELSE IF file.filename = <<>> THEN "No file selected"
  ELSE IF ~allowed_file(file.filename)
  THEN "Invalid file type. Allowed types: mp4, mov, avi"
  ELSE ""

exceptMut(stage, next) == next

\* except Exception: the handler stops and answers 500
except(stage, next) == "done"

\* return jsonify({"error": str(e)}), 500
Error500(msg) == [code |-> 500, error |-> msg, payload |-> NoPayload]

\* a stage raised Exception(msg): the call is recorded, the except block
\* answers with str(e)
Raise(r, call, msg, next) ==
  /\ trace' = [trace EXCEPT ![r] = Append(@, call)]
  /\ pc' = [pc EXCEPT ![r] = except(call.op, next)]
  /\ response' = [response EXCEPT ![r] = Error500(msg)]

\* request r arrives with the given multipart body and is validated
upload_video(r, file) ==
  /\ pc[r] = "idle"
  /\ req' = [req EXCEPT ![r] = file]
  /\ IF validate(file) # ""
     THEN /\ pc' = [pc EXCEPT ![r] = "done"]
          /\ response' = [response EXCEPT ![r] =
                            [code |-> 400, error |-> validate(file),
                             payload |-> NoPayload]]
     ELSE /\ pc' = [pc EXCEPT ![r] = "save"]
          /\ UNCHANGED response
  /\ UNCHANGED <<loc, disk, bucket, jobs, trace, lastResp, pollResult, slept>>
  /\ UNCHANGED <<gvars, fvars>>

\* save_uploaded_file, first half: file.save opens the destination for
\* writing (truncating it) and copies the first chunk
save_uploaded_file(r, ok) ==
  /\ pc[r] = "save"
  /\ LET file_path == join(UPLOAD_FOLDER, secure_filename(req[r].filename))
     IN IF ok
        THEN /\ disk' = (file_path :> [conv |-> FALSE,
                                       data |-> <<Bytes(r).data[1]>>]) @@ disk
             /\ trace' = [trace EXCEPT ![r] =
                            Append(@, Call("save", file_path, Bytes(r), "ok"))]
             /\ pc' = [pc EXCEPT ![r] = "saving"]
             /\ UNCHANGED response
        ELSE /\ Raise(r, Call("save", file_path, Bytes(r), "cannot open"),
                      "cannot open", "saving")
             /\ UNCHANGED disk
  /\ UNCHANGED <<req, loc, bucket, jobs, lastResp, pollResult, slept>>
  /\ UNCHANGED <<gvars, fvars>>

\* save_uploaded_file, second half: the second chunk is written at its
\* offset and the path is returned
save_finish(r) ==
  /\ pc[r] = "saving"
  /\ LET file_path == join(UPLOAD_FOLDER, secure_filename(req[r].filename))
     IN /\ disk' = [disk EXCEPT ![file_path] =
                      [conv |-> FALSE,
                       data |-> <<@.data[1], Bytes(r).data[2]>>]]
        /\ loc' = [loc EXCEPT ![r].saved_file_path = file_path]
  /\ pc' = [pc EXCEPT ![r] = "transcode"]
  /\ UNCHANGED <<req, bucket, jobs, trace, lastResp, pollResult, response,
                 slept>>
  /\ UNCHANGED <<gvars, fvars>>

\* convert_video_to_aws_rekognition(saved_file_path): reads the saved file,
\* writes the converted artifact and returns its path, or raises
convert_video_to_aws_rekognition(r, ok, out) ==
  /\ pc[r] = "transcode"
  /\ LET src == loc[r].saved_file_path
     IN IF ok
        THEN /\ disk' = (out :> Converted(disk[src])) @@ disk
             /\ loc' = [loc EXCEPT ![r].converted_path = out]
             /\ trace' = [trace EXCEPT ![r] =
                            Append(@, Call("transcode", src, disk[src], "ok"))]
             /\ pc' = [pc EXCEPT ![r] = "store"]
             /\ UNCHANGED response
        ELSE /\ Raise(r, Call("transcode", src, disk[src], "convert failed"),
                      "convert failed", "store")
             /\ UNCHANGED <<disk, loc>>
  /\ UNCHANGED <<req, bucket, jobs, lastResp, pollResult, slept>>
  /\ UNCHANGED <<gvars, fvars>>

\* s3_client.upload_file(converted_path, S3_BUCKET, converted_filename)
upload_file(r, ok) ==
  /\ pc[r] = "store"
  /\ LET converted_filename == basename(loc[r].converted_path)
         body == disk[loc[r].converted_path]
     IN /\ loc' = [loc EXCEPT ![r].converted_filename = converted_filename]
        /\ IF ok
           THEN /\ bucket' = (converted_filename :> body) @@ bucket
                /\ trace' = [trace EXCEPT ![r] =
                               Append(@, Call("store", converted_filename,
                                              body, "ok"))]
                /\ pc' = [pc EXCEPT ![r] = "submit"]
                /\ UNCHANGED response
           ELSE /\ Raise(r, Call("store", converted_filename, body,
                                 "upload failed"), "upload failed", "submit")
                /\ UNCHANGED bucket
  /\ UNCHANGED <<req, disk, jobs, lastResp, pollResult, slept>>
  /\ UNCHANGED <<gvars, fvars>>

\* process_face_detection up to the call of poll_face_detection:
\* start_face_detection on the stored object, which returns a job id
process_face_detection(r, ok) ==
  /\ pc[r] = "submit"
  /\ LET video_name == loc[r].converted_filename
     IN IF ok
        THEN /\ jobs' = Append(jobs, [key |-> video_name,
                                      video |-> bucket[video_name]])
             /\ loc' = [loc EXCEPT ![r].job_id = Len(jobs) + 1]
             /\ trace' = [trace EXCEPT ![r] =
                            Append(@, Call("submit", video_name,
                                           bucket[video_name], "ok"))]
             /\ pc' = [pc EXCEPT ![r] = "poll"]
             /\ UNCHANGED response
        ELSE /\ Raise(r, Call("submit", video_name, bucket[video_name],
                              "start failed"), "start failed", "poll")
             /\ UNCHANGED <<jobs, loc>>
  /\ UNCHANGED <<req, disk, bucket, lastResp, pollResult, slept>>
  /\ UNCHANGED <<gvars, fvars>>

\* one iteration of the loop of poll_face_detection up to its branch: the
\* status call is answered by resp (RaisedResp: the call raises).  A return
\* or a raise goes through process_face_detection to the HTTP response.
poll_face_detection(r, resp) ==
  /\ pc[r] = "poll"
  /\ pollBranch(resp.JobStatus) = "sleep" => Count(r, "poll") < MaxPolls
  /\ lastResp' = [lastResp EXCEPT ![r] = resp]
  /\ IF resp = RaisedResp
     THEN /\ Raise(r, Call("poll", <<>>, NoData, "poll failed"), "poll failed",
                "sleep")
          /\ pollResult' = [pollResult EXCEPT ![r] =
                              [kind |-> "raise", value |-> NoPayload,
                               msg |-> "poll failed"]]
     ELSE CASE pollBranch(resp.JobStatus) = "return" ->
                 /\ trace' = [trace EXCEPT ![r] =
                                Append(@, Call("poll", <<>>, NoData,
                                               resp.JobStatus))]
                 /\ pollResult' = [pollResult EXCEPT ![r] =
                                     [kind |-> "return",
                                      value |-> buildPayload(resp),
                                      msg |-> ""]]
                 /\ response' = [response EXCEPT ![r] =
                                   [code |-> 200, error |-> "",
                                    payload |-> buildPayload(resp)]]
                 /\ pc' = [pc EXCEPT ![r] = "done"]
            [] pollBranch(resp.JobStatus) = "sleep" ->
                 /\ trace' = [trace EXCEPT ![r] =
                                Append(@, Call("poll", <<>>, NoData,
                                               resp.JobStatus))]
                 /\ pc' = [pc EXCEPT ![r] = "sleep"]
                 /\ UNCHANGED <<pollResult, response>>
            [] OTHER ->
                 /\ Raise(r, Call("poll", <<>>, NoData, resp.JobStatus),
                          errorMessage(resp), "sleep")
                 /\ pollResult' = [pollResult EXCEPT ![r] =
                                     [kind |-> "raise", value |-> NoPayload,
                                      msg |-> errorMessage(resp)]]
  /\ UNCHANGED <<req, loc, disk, bucket, jobs, slept>>
  /\ UNCHANGED <<gvars, fvars>>

\* time.sleep(5), then the loop polls again
sleep(r) ==
  /\ pc[r] = "sleep"
  /\ trace' = [trace EXCEPT ![r] = Append(@, Call("sleep", <<>>, NoData, "ok"))]
  /\ slept' = [slept EXCEPT ![r] = @ + SLEEP_SECONDS]
  /\ pc' = [pc EXCEPT ![r] = "poll"]
  /\ UNCHANGED <<req, loc, disk, bucket, jobs, lastResp, pollResult, response>>
  /\ UNCHANGED <<gvars, fvars>>

\* ------------------------------------------------------------------------
\* POST /gpt
\* ------------------------------------------------------------------------
GptBodies ==
  {[kind |-> "null", hasInput |-> FALSE, input |-> ""],
   [kind |-> "object", hasInput |-> FALSE, input |-> ""],
   [kind |-> "object", hasInput |-> TRUE, input |-> ""],
   [kind |-> "object", hasInput |-> TRUE, input |-> "hello"],
   [kind |-> "object", hasInput |-> TRUE, input |-> "hey"]}

\* what chat.completions.create does: the texts of the choices it returns,
\* or the exception it raises
GptOutcomes ==
  {[ok |-> TRUE, choices |-> <<"hi">>, msg |-> ""],
   [ok |-> TRUE, choices |-> <<"hi", "yo">>, msg |-> ""],
   [ok |-> TRUE, choices |-> <<"yo", "hi">>, msg |-> ""],
   [ok |-> FALSE, choices |-> <<>>, msg |-> "api error"]}

\* gpt_api up to the try block: data = request.get_json() is None for a
\* JSON null body, and data.get then raises AttributeError outside any
\* try, which the framework answers with its own 500
gpt_api(g, body) ==
  /\ gpc[g] = "idle"
  /\ gbody' = [gbody EXCEPT ![g] = body]
  /\ IF body.kind = "null"
     THEN /\ gpc' = [gpc EXCEPT ![g] = "done"]
          /\ gresponse' = [gresponse EXCEPT ![g] =
                             [code |-> 500, error |-> "Internal Server Error",
                              response |-> ""]]
     ELSE LET user_input == IF body.hasInput THEN body.input ELSE ""
          IN IF user_input = ""
             THEN /\ gpc' = [gpc EXCEPT ![g] = "done"]
                  /\ gresponse' = [gresponse EXCEPT ![g] =
                                     [code |-> 400,
                                      error |-> "No input provided",
                                      response |-> ""]]
             ELSE /\ gpc' = [gpc EXCEPT ![g] = "call"]
                  /\ UNCHANGED gresponse
  /\ UNCHANGED <<gcalls, goutcome>>
  /\ UNCHANGED <<uvars, fvars>>

\* the try block of gpt_api: one call of the completion adapter
create(g, outcome) ==
  /\ gpc[g] = "call"
  /\ gcalls' = [gcalls EXCEPT ![g] = @ + 1]
  /\ goutcome' = [goutcome EXCEPT ![g] = outcome]
  /\ gresponse' = [gresponse EXCEPT ![g] =
                     IF outcome.ok
                     THEN [code |-> 200, error |-> "",
                           response |-> outcome.choices[1]]
                     ELSE [code |-> 500, error |-> outcome.msg,
                           response |-> ""]]
  /\ gpc' = [gpc EXCEPT ![g] = "done"]
  /\ UNCHANGED gbody
  /\ UNCHANGED <<uvars, fvars>>

\* ------------------------------------------------------------------------
\* allowed_file as a call
\* ------------------------------------------------------------------------
allowed_file_call ==
  /\ fpc = "call"
  /\ fresult' = allowed_file(fname)
  /\ fpc' = "ret"
  /\ UNCHANGED fname
  /\ UNCHANGED <<uvars, gvars>>

\* ------------------------------------------------------------------------
\* Specifications
\* ------------------------------------------------------------------------
UploadFiles(names) == {NoFile} \cup {File(n) : n \in names}

\* one /upload request
Init == InitUpload(Requests) /\ InitGpt({}) /\ InitFile({<<>>})

Next ==
  \/ \E r \in Requests, f \in UploadFiles(UploadNames) : upload_video(r, f)
  \/ \E r \in Requests, ok \in BOOLEAN : save_uploaded_file(r, ok)
  \/ \E r \in Requests : save_finish(r)
  \/ \E r \in Requests, ok \in BOOLEAN, out \in ConvertedPaths :
       convert_video_to_aws_rekognition(r, ok, out)
  \/ \E r \in Requests, ok \in BOOLEAN : upload_file(r, ok)
  \/ \E r \in Requests, ok \in BOOLEAN : process_face_detection(r, ok)
  \/ \E r \in Requests, resp \in Responses \cup {RaisedResp} :
       poll_face_detection(r, resp)
  \/ \E r \in Requests : sleep(r)

Spec == Init /\ [][Next]_vars

\* two /upload requests in flight at once
InitConc == InitUpload(ConcRequests) /\ InitGpt({}) /\ InitFile({<<>>})

\* the steps of request r
StepConc(r) ==
  \/ \E n \in ConcNames : upload_video(r, File(n))
  \/ \E ok \in BOOLEAN : save_uploaded_file(r, ok)
  \/ save_finish(r)
  \/ \E ok \in BOOLEAN, out \in ConvertedPaths :
       convert_video_to_aws_rekognition(r, ok, out)
  \/ \E ok \in BOOLEAN : upload_file(r, ok)
  \/ \E ok \in BOOLEAN : process_face_detection(r, ok)
  \/ \E resp \in ConcResponses : poll_face_detection(r, resp)
  \/ sleep(r)

NextConc == \E r \in ConcRequests : StepConc(r)

SpecConc == InitConc /\ [][NextConc]_vars

\* /gpt requests
InitG == InitUpload({}) /\ InitGpt(GptRequests) /\ InitFile({<<>>})

NextG ==
  \/ \E g \in GptRequests, body \in GptBodies : gpt_api(g, body)
  \/ \E g \in GptRequests, outcome \in GptOutcomes : create(g, outcome)

SpecGpt == InitG /\ [][NextG]_vars

\* allowed_file on every filename of at most MaxLen characters
InitF == InitUpload({}) /\ InitGpt({}) /\ InitFile(Strings(FileChars, MaxLen))

NextF == allowed_file_call

SpecFile == InitF /\ [][NextF]_vars

\* ------------------------------------------------------------------------
\* Properties
\* ------------------------------------------------------------------------
\* c is the letter e in lower or upper case
SameLetter(c, e) ==
  \/ c = e
  \/ <<c, e>> \in {<<"A", "a">>, <<"I", "i">>, <<"M", "m">>, <<"O", "o">>,
                   <<"P", "p">>, <<"V", "v">>}

MP4 == <<"m", "p", "4">>
MOV == <<"m", "o", "v">>
AVI == <<"a", "v", "i">>

\* f has a '.', and what follows its last '.' spells mp4, mov or avi in
\* any mix of cases
HasAllowedSuffix(f) ==
  \E i \in 1..Len(f) :
    /\ f[i] = "."
    /\ \A j \in (i + 1)..Len(f) : f[j] # "."
    /\ \E e \in {MP4, MOV, AVI} :
         /\ Len(f) - i = Len(e)
         /\ \A k \in 1..Len(e) : SameLetter(f[i + k], e[k])

\* key is the last component of path
IsBasename(key, path) ==
  /\ Len(key) <= Len(path)
  /\ SubSeq(path, Len(path) - Len(key) + 1, Len(path)) = key
  /\ \A i \in 1..Len(key) : key[i] # "/"
  /\ Len(key) < Len(path) => path[Len(path) - Len(key)] = "/"

\* C1: a validated /upload in which no stage raises runs save, transcode,
\* store, submit and then the polling, each stage once and in that order;
\* the store and the submission use the basename of the transcoder's path
\* as key; the response is 200 with the payload poll_face_detection built.
C1_HappyPath ==
  \A r \in DOMAIN pc :
    response[r].code = 200 =>
      LET t == trace[r]
      IN /\ Len(t) >= 5
         /\ SubSeq(Ops(r), 1, 5) =
              <<"save", "transcode", "store", "submit", "poll">>
         /\ \A i \in 5..Len(t) : t[i].op \in {"poll", "sleep"}
         /\ \A i \in 1..Len(t) : t[i].out \in {"ok", "IN_PROGRESS", "SUCCEEDED"}
         /\ IsBasename(t[3].path, loc[r].converted_path)
         /\ t[4].path = t[3].path
         /\ Len(jobs) = 1 /\ jobs[1].key = t[3].path
         /\ pollResult[r].kind = "return"
         /\ response[r].payload = pollResult[r].value
         /\ response[r].error = ""
         /\ pc[r] = "done"

C1_Witness ==
  \E r \in DOMAIN pc :
    /\ response[r].code = 200
    /\ Count(r, "sleep") >= 1
    /\ response[r].payload.faces = "faces"

\* the i-th call of request r failed: it raised, or it is a status poll
\* answered with a status that is neither success nor in progress
Failed(r, i) == trace[r][i].out \notin {"ok", "IN_PROGRESS", "SUCCEEDED"}

\* the message of the exception the failure raises
FailureMessage(r, i) ==
  IF trace[r][i].out \in Statuses
  THEN IF lastResp[r].StatusMessage = ABSENT THEN "Face detection failed"
       ELSE lastResp[r].StatusMessage
  ELSE trace[r][i].out

\* C2: when a stage of a validated /upload fails, the response is 500 with
\* the failing stage's exception message as error, and the failing call is
\* the last call the request makes.
C2_StageFailure ==
  \A r \in DOMAIN pc :
    \A i \in 1..Len(trace[r]) :
      Failed(r, i) =>
        /\ i = Len(trace[r])
        /\ pc[r] = "done"
        /\ response[r] = [code |-> 500, error |-> FailureMessage(r, i),
                          payload |-> NoPayload]

C2_Witness ==
  \E r \in DOMAIN pc :
    /\ Ops(r) = <<"save", "transcode", "store">>
    /\ Failed(r, 3)
    /\ response[r].code = 500

\* C3: an /upload without file part, with an empty filename or with a
\* disallowed extension is answered 400, having written nothing to disk,
\* transcoded nothing, stored nothing and submitted no job.
C3_Rejected ==
  \A r \in DOMAIN pc :
    (/\ pc[r] # "idle"
     /\ \/ ~req[r].hasFile
        \/ req[r].filename = <<>>
        \/ ~HasAllowedSuffix(req[r].filename)) =>
      /\ pc[r] = "done"
      /\ response[r].code = 400
      /\ trace[r] = <<>>
      /\ DOMAIN disk = {} /\ DOMAIN bucket = {} /\ jobs = <<>>

C3_Witness ==
  \E r \in DOMAIN pc :
    /\ req[r] = File(<<"a", ".", "t", "x", "t">>)
    /\ response[r].code = 400

\* the calls of request r that are status polls answered IN_PROGRESS
InProgressPolls(r) ==
  {i \in 1..Len(trace[r]) :
     trace[r][i].op = "poll" /\ trace[r][i].out = "IN_PROGRESS"}

\* C4: when k polls are answered IN_PROGRESS and the next SUCCEEDED,
\* poll_face_detection makes k+1 polls and k waits of 5 units, one right
\* after each IN_PROGRESS answer and none after SUCCEEDED, and returns the
\* payload built from the final response.
C4_PollSuccess ==
  \A r \in DOMAIN pc :
    pollResult[r].kind = "return" =>
      LET t == trace[r]
          k == Cardinality(InProgressPolls(r))
      IN /\ lastResp[r].JobStatus = "SUCCEEDED"
         /\ t[Len(t)].op = "poll" /\ t[Len(t)].out = "SUCCEEDED"
         /\ Count(r, "poll") = k + 1
         /\ Count(r, "sleep") = k
         /\ slept[r] = 5 * k
         /\ \A i \in 1..Len(t) :
              (i < Len(t) /\ t[i + 1].op = "sleep") <=> i \in InProgressPolls(r)
         /\ pollResult[r].value =
              [status |-> "SUCCEEDED",
               video_metadata |-> IF lastResp[r].VideoMetadata = ABSENT
                                  THEN "{}" ELSE lastResp[r].VideoMetadata,
               faces |-> IF lastResp[r].Faces = ABSENT
                         THEN "[]" ELSE lastResp[r].Faces,
               next_token |-> IF lastResp[r].NextToken = ABSENT
                              THEN "" ELSE lastResp[r].NextToken]

C4_Witness ==
  \E r \in DOMAIN pc :
    /\ pollResult[r].kind = "return"
    /\ Cardinality(InProgressPolls(r)) = 2
    /\ slept[r] = 10
    /\ pollResult[r].value.next_token = "tok"

\* C5: a status other than SUCCEEDED and IN_PROGRESS ends the polling at
\* once with an error whose message is the response's status message, or
\* 'Face detection failed' when the response has none.
C5_PollFailure ==
  \A r \in DOMAIN pc :
    lastResp[r].JobStatus \in Statuses \ {"SUCCEEDED", "IN_PROGRESS"} =>
      /\ pollResult[r].kind = "raise"
      /\ pollResult[r].msg = IF lastResp[r].StatusMessage = ABSENT
                             THEN "Face detection failed"
                             ELSE lastResp[r].StatusMessage
      /\ trace[r][Len(trace[r])].op = "poll"
      /\ trace[r][Len(trace[r])].out = lastResp[r].JobStatus
      /\ pc[r] = "done"

C5_Witness ==
  \E r \in DOMAIN pc :
    /\ lastResp[r].JobStatus = "FAILED"
    /\ lastResp[r].StatusMessage = "corrupt video"
    /\ pollResult[r].msg = "corrupt video"

\* C6: /gpt calls the completion adapter exactly when 'input' is present
\* and non-empty; otherwise the answer is 400 without a call; with a call
\* the answer is 200 with the first completion's text, or 500 with the
\* message when the call fails.
C6_GptContract ==
  \A g \in DOMAIN gpc :
    gpc[g] = "done" =>
      LET present == gbody[g].hasInput /\ gbody[g].input # ""
      IN /\ (gcalls[g] > 0) <=> present
         /\ ~present =>
              gresponse[g].code = 400 /\ gcalls[g] = 0
         /\ present =>
              /\ gcalls[g] = 1
              /\ gresponse[g] =
                   IF goutcome[g].ok
                   THEN [code |-> 200, error |-> "",
                         response |-> goutcome[g].choices[1]]
                   ELSE [code |-> 500, error |-> goutcome[g].msg,
                         response |-> ""]

C8_Independent ==
  \A r \in DOMAIN pc :
    /\ pc[r] # "done" => ENABLED StepConc(r)
    /\ \A i \in 1..Len(trace[r]) :
         /\ trace[r][i].op = "transcode" => trace[r][i].data = Bytes(r)
         /\ trace[r][i].op \in {"store", "submit"} =>
              trace[r][i].data = Converted(Bytes(r))

\* request r has entered poll_face_detection
Polling(r) == Count(r, "submit") = 1 /\ trace[r][Len(trace[r])].out # "start failed"

\* C9 as stated: poll_face_detection has ended exactly when some status
\* poll was answered with a status other than IN_PROGRESS, and until then
\* the request polls and waits without a response.
C9_TerminatesIffStatus ==
  \A r \in DOMAIN pc :
    /\ pollResult[r].kind # NONE <=>
         \E i \in 1..Len(trace[r]) :
           /\ trace[r][i].op = "poll"
           /\ trace[r][i].out \in Statuses \ {"IN_PROGRESS"}
    /\ (Polling(r) /\ pollResult[r].kind = NONE) =>
         pc[r] \in {"poll", "sleep"} /\ response[r].code = 0

\* C9 amended: poll_face_detection has ended exactly when some status poll
\* was answered with a status other than IN_PROGRESS or the status call
\* raised; as long as every answer is IN_PROGRESS, whatever their number,
\* the request is polling or waiting and has no response.
C9_TerminatesIffNotInProgress ==
  \A r \in DOMAIN pc :
    /\ pollResult[r].kind # NONE <=>
         \E i \in 1..Len(trace[r]) :
           /\ trace[r][i].op = "poll"
           /\ trace[r][i].out # "IN_PROGRESS"
    /\ (Polling(r) /\ pollResult[r].kind = NONE) =>
         /\ pc[r] \in {"poll", "sleep"}
         /\ response[r].code = 0
         /\ Count(r, "poll") = Cardinality(InProgressPolls(r))
    /\ pollResult[r].kind # NONE => pc[r] = "done" /\ response[r].code # 0

C9_Witness ==
  \E r \in DOMAIN pc :
    /\ pollResult[r].kind = "raise"
    /\ lastResp[r] = RaisedResp
    /\ Count(r, "sleep") >= 1

\* C10: nothing is retried: save, transcode, store and submit are called
\* at most once per request and at most one job is created; a status poll
\* is either the first one or follows, after one wait, a poll answered
\* IN_PROGRESS.
C10_NoRetry ==
  \A r \in DOMAIN pc :
    LET t == trace[r]
    IN /\ \A op \in {"save", "transcode", "store", "submit"} : Count(r, op) <= 1
       /\ Len(jobs) <= Count(r, "submit")
       /\ \A i \in 1..Len(t) :
            t[i].op = "poll" =>
              \/ t[i - 1].op = "submit"
              \/ /\ i >= 3
                 /\ t[i - 1].op = "sleep"
                 /\ t[i - 2].op = "poll"
                 /\ t[i - 2].out = "IN_PROGRESS"
       /\ \A i \in 1..Len(t) : t[i].op = "sleep" => t[i - 1].op = "poll"

C10_Witness ==
  \E r \in DOMAIN pc :
    /\ Count(r, "poll") = 3
    /\ lastResp[r].JobStatus = "TIMED_OUT"
    /\ pc[r] = "done"

====
